---- MODULE Spec2Model ----
(***************************************************************************)
(* A model of marcusklaas/lisp-parsers.                                    *)
(*                                                                         *)
(*   - src/src/evaluator.rs: the stack machine `eval` (value stack         *)
(*     return_values, instruction stack instructions, saved states states, *)
(*     frame pointers stack_pointers, current bindings state), run one     *)
(*     instruction per step against the caller's environment init_state.   *)
(*   - src/src/lib.rs: the resolver LispExpr::finalize / into_top_expr,    *)
(*     FinalizedExpr::replace_args and LispFunc::create_continuation, as   *)
(*     operators applied to source expressions drawn from bounded sets.    *)
(***************************************************************************)
EXTENDS Integers, Sequences, FiniteSets, TLC

VARIABLES
    init_state,      \* the caller's State.bound (eval's &mut State)
    state,           \* eval: let mut state = init_state.clone()
    return_values,   \* eval: Vec<LispValue>, top is the last element
    states,          \* eval: Vec<State>, saved caller states
    instructions,    \* eval: Vec<Instr>, top is the last element
    stack_pointers,  \* eval: Vec<usize>
    pc,              \* "idle" | "run" | "done": where the caller is w.r.t. eval
    expr,            \* the expression passed to the running / last eval
    before,          \* init_state as it was when that eval was called
    outcome,         \* what that eval returned: Ok(value), Err(error) or a panic
    iter_order,      \* the iteration order of the HashMap State.bound
    n_evals,         \* number of eval calls made so far
    overflow_checks, \* the build's overflow checks: "on" | "off", "any" until observed
    r_pc,            \* resolver: "src" | "out"
    r_src,           \* resolver: the source expression handed to the resolver
    r_own,           \* resolver: own_name (None is "")
    r_out,           \* resolver: the Result of into_top_expr / finalize
    r_closed,        \* resolver: the last replace_args call and what it returned
    func,            \* a CustomFunc: arg_count, body and the byte_code buffer
    compile_log      \* what each compile call on func returned, and whether it wrote

vars == <<init_state, state, return_values, states, instructions, stack_pointers,
          pc, expr, before, outcome, iter_order, n_evals, overflow_checks,
          r_pc, r_src, r_own, r_out, r_closed, func, compile_log>>

evalVars == <<init_state, state, return_values, states, instructions, stack_pointers,
              pc, expr, before, outcome, iter_order, n_evals, overflow_checks>>

resolverVars == <<r_pc, r_src, r_own, r_out, r_closed>>

cacheVars == <<func, compile_log>>

(***************************************************************************)
(* Bounds of the model.                                                    *)
(***************************************************************************)
MaxEvals == 2      \* eval calls made on one environment
MaxLoop == 2       \* largest argument of the tail-recursive countdown
MaxList == 2       \* longest list built by a list program
IntegerBits == 3   \* width of LispValue::Integer, which is a u64, scaled down
MaxCompiles == 3   \* compile calls made on one custom function

\* The largest Integer: u64::MAX at the width of the model.
IntegerMax == 2 ^ IntegerBits - 1

(***************************************************************************)
(* Sequence helpers.                                                       *)
(***************************************************************************)
Last(s) == s[Len(s)]
Front(s) == SubSeq(s, 1, Len(s) - 1)
Rev(s) == [i \in 1..Len(s) |-> s[Len(s) + 1 - i]]

(***************************************************************************)
(* LispValue and LispFunc (evaluator.rs uses Truth / Integer / SubValue /  *)
(* Function, with Function either BuiltIn(name) or Custom{state,args,body}).*)
(***************************************************************************)
Truth(b) == [t |-> "Truth", b |-> b]
Integer(i) == [t |-> "Integer", i |-> i]
SubValue(v) == [t |-> "SubValue", v |-> v]
BuiltIn(name) == [t |-> "Function", f |-> "BuiltIn", name |-> name]
Custom(st, args, body) ==
    [t |-> "Function", f |-> "Custom", state |-> st, args |-> args, body |-> body]

(***************************************************************************)
(* LispExpr as the evaluator matches on it.                                *)
(***************************************************************************)
Value(v) == [k |-> "Value", v |-> v]
OpVar(n) == [k |-> "OpVar", n |-> n]
SubExpr(l) == [k |-> "SubExpr", l |-> l]
Argument(o) == [k |-> "Argument", o |-> o]

(***************************************************************************)
(* EvaluationError.                                                        *)
(***************************************************************************)
Err(e) == [e |-> e, n |-> ""]
UnknownVariable(n) == [e |-> "UnknownVariable", n |-> n]
NoErr == Err("none")

(***************************************************************************)
(* Instr.                                                                  *)
(***************************************************************************)
IEvalAndPush(e) == [i |-> "EvalAndPush", e |-> e]
IEvalFunction(l) == [i |-> "EvalFunction", l |-> l]
IPopCondPush(a, b) == [i |-> "PopCondPush", a |-> a, b |-> b]
IPopAndSet(n) == [i |-> "PopAndSet", n |-> n]
IPopState == [i |-> "PopState"]
IBindArguments(a) == [i |-> "BindArguments", a |-> a]
IEvalFunctionEager(n, c) == [i |-> "EvalFunctionEager", n |-> n, c |-> c]

(***************************************************************************)
(* State: the HashMap bound, a function from the bound names to values.    *)
(***************************************************************************)
\* Every name a program of the model can bind, in a fixed order.
NameOrder == <<"#f", "#t", "f", "g", "loop", "n", "x", "y">>

StateNew == [n \in {"#t", "#f"} |-> Truth(n = "#t")]

get_variable_value(bound, var_name) ==
    IF var_name \in DOMAIN bound THEN bound[var_name] ELSE BuiltIn(var_name)

set_variable(bound, var_name, val) ==
    [k \in DOMAIN bound \cup {var_name} |-> IF k = var_name THEN val ELSE bound[k]]

\* state.bound.iter(): the entries in the map's iteration order.
BoundIter(bound, order) ==
    LET fwd == SelectSeq(NameOrder, LAMBDA n : n \in DOMAIN bound)
    IN  IF order = "fwd" THEN fwd ELSE Rev(fwd)

(***************************************************************************)
(* The locals of eval as one record m, and the effect of each instruction. *)
(* m.status is "run" while the loop runs, "err" after a `return Err(..)`   *)
(* (m.error is the error) and "panic" after a failed unwrap / index.       *)
(***************************************************************************)
Fail(m, e) == [m EXCEPT !.status = "err", !.error = e]
Panic(m) == [m EXCEPT !.status = "panic"]
Push(m, v) == [m EXCEPT !.return_values = Append(@, v)]
PushInstrs(m, is) == [m EXCEPT !.instructions = @ \o is]

eval_init(e, init, order) ==
    [return_values |-> <<>>, states |-> <<>>, state |-> init,
     instructions |-> <<IEvalAndPush(e)>>, stack_pointers |-> <<0>>,
     status |-> "run", error |-> NoErr, order |-> order,
     checks |-> "on", overflowed |-> FALSE]

\* The variant that drops the saved state instead of restoring it.
do_PopState_keep_state(m) ==
    IF m.states = <<>> \/ m.return_values = <<>> \/ m.stack_pointers = <<>>
    THEN Panic(m)
    ELSE LET val == Last(m.return_values)
             pointer == Last(m.stack_pointers)
             rest == Front(m.return_values)
             truncated == IF pointer < Len(rest) THEN SubSeq(rest, 1, pointer) ELSE rest
         IN  [m EXCEPT !.states = Front(m.states),
                       !.stack_pointers = Front(m.stack_pointers),
                       !.return_values = Append(truncated, val)]

\* The variant that leaves the callee's values on the value stack.
do_PopState_no_truncate(m) ==
    IF m.states = <<>> \/ m.return_values = <<>> \/ m.stack_pointers = <<>>
    THEN Panic(m)
    ELSE [m EXCEPT !.state = Last(m.states),
                   !.states = Front(m.states),
                   !.stack_pointers = Front(m.stack_pointers)]

do_PopState(m) ==
    IF m.states = <<>> \/ m.return_values = <<>> \/ m.stack_pointers = <<>>
    THEN Panic(m)
    ELSE LET val == Last(m.return_values)
             pointer == Last(m.stack_pointers)
             rest == Front(m.return_values)
             truncated == IF pointer < Len(rest) THEN SubSeq(rest, 1, pointer) ELSE rest
         IN  [m EXCEPT !.state = Last(m.states),
                       !.states = Front(m.states),
                       !.stack_pointers = Front(m.stack_pointers),
                       !.return_values = Append(truncated, val)]

do_EvalAndPush(m, e) ==
    CASE e.k = "Argument" ->
           IF Len(m.return_values) - 1 - e.o < 0
           THEN Panic(m)
           ELSE Push(m, m.return_values[Len(m.return_values) - e.o])
      [] e.k = "Value" -> Push(m, e.v)
      [] e.k = "OpVar" -> Push(m, get_variable_value(m.state, e.n))
      [] e.k = "SubExpr" ->
           IF e.l = <<>>
           THEN Panic(m)
           ELSE PushInstrs(m, <<IEvalFunction(Tail(e.l)), IEvalAndPush(Head(e.l))>>)

\* The variant without the operand count check.
apply_custom_unchecked(m, f, expr_list) ==
    LET names == BoundIter(m.state, m.order)
        closure == [k \in DOMAIN f.state \cup DOMAIN m.state |->
                      IF k \in DOMAIN m.state THEN m.state[k] ELSE f.state[k]]
    IN  [m EXCEPT
           !.stack_pointers = Append(@, Len(m.return_values)),
           !.return_values = @ \o [i \in 1..Len(names) |-> m.state[names[i]]],
           !.state = closure,
           !.states = Append(@, m.state),
           !.instructions = @ \o <<IPopState, IEvalAndPush(f.body), IBindArguments(f.args)>>
                              \o [i \in 1..Len(expr_list) |-> IEvalAndPush(expr_list[i])]]

\* LispFunc::Custom arm of Instr::EvalFunction.
apply_custom(m, f, expr_list) ==
    IF Len(f.args) /= Len(expr_list)
    THEN Fail(m, Err("ArgumentCountMismatch"))
    ELSE LET names == BoundIter(m.state, m.order)
             closure == [k \in DOMAIN f.state \cup DOMAIN m.state |->
                           IF k \in DOMAIN m.state THEN m.state[k] ELSE f.state[k]]
         IN  [m EXCEPT
                !.stack_pointers = Append(@, Len(m.return_values)),
                !.return_values = @ \o [i \in 1..Len(names) |-> m.state[names[i]]],
                !.state = closure,
                !.states = Append(@, m.state),
                !.instructions = @ \o <<IPopState, IEvalAndPush(f.body), IBindArguments(f.args)>>
                                   \o [i \in 1..Len(expr_list) |-> IEvalAndPush(expr_list[i])]]

\* LispFunc::BuiltIn arm of Instr::EvalFunction.
apply_builtin(m, func_name, expr_list) ==
    CASE func_name = "cond" ->
           IF Len(expr_list) /= 3
           THEN Fail(m, Err("ArgumentCountMismatch"))
           ELSE PushInstrs(m, <<IPopCondPush(expr_list[2], expr_list[3]),
                                IEvalAndPush(expr_list[1])>>)
      [] func_name = "lambda" ->
           IF Len(expr_list) /= 2
           THEN Fail(m, Err("ArgumentCountMismatch"))
           ELSE LET arg_list == expr_list[1]
                    body == expr_list[2]
                IN  IF arg_list.k /= "SubExpr"
                    THEN Fail(m, Err("ArgumentTypeMismatch"))
                    ELSE IF \E i \in 1..Len(arg_list.l) : arg_list.l[i].k /= "OpVar"
                    THEN Fail(m, Err("MalformedDefinition"))
                    ELSE Push(m, Custom(m.state,
                                        [i \in 1..Len(arg_list.l) |-> arg_list.l[i].n],
                                        body))
      [] func_name = "define" ->
           IF Len(expr_list) /= 2
           THEN Fail(m, Err("ArgumentCountMismatch"))
           ELSE IF expr_list[1].k /= "OpVar"
           THEN Fail(m, Err("ArgumentTypeMismatch"))
           ELSE PushInstrs(m, <<IPopAndSet(expr_list[1].n), IEvalAndPush(expr_list[2])>>)
      [] OTHER ->
           PushInstrs(m, <<IEvalFunctionEager(func_name, Len(expr_list))>>
                           \o [i \in 1..Len(expr_list) |->
                                 IEvalAndPush(expr_list[Len(expr_list) + 1 - i])])

do_EvalFunction(m, expr_list) ==
    IF m.return_values = <<>>
    THEN Panic(m)
    ELSE LET head == Last(m.return_values)
             m1 == [m EXCEPT !.return_values = Front(@)]
         IN  IF head.t /= "Function"
             THEN Fail(m1, Err("NonFunctionApplication"))
             ELSE IF head.f = "BuiltIn"
             THEN apply_builtin(m1, head.name, expr_list)
             ELSE apply_custom(m1, head, expr_list)

ROk(v) == [ok |-> TRUE, v |-> v, e |-> NoErr, ovf |-> FALSE]
RErr(e) == [ok |-> FALSE, v |-> Truth(FALSE), e |-> e, ovf |-> FALSE]

\* An arithmetic overflow: v is what the operation yields when it wraps around.
ROverflow(v) == [ok |-> TRUE, v |-> v, e |-> NoErr, ovf |-> TRUE]

\* The variant of cdr that drops the first element.
cdr_fn_tail(vec) == IF vec = <<>> THEN RErr(Err("EmptyList")) ELSE ROk(SubValue(Tail(vec)))

\* The variant of sub1 without the test for zero.
sub1_fn_unchecked(i) == ROk(Integer(i - 1))

\* The closures handed to unitary_list and unitary_int.
car_fn(vec) == IF vec = <<>> THEN RErr(Err("EmptyList")) ELSE ROk(Last(vec))
cdr_fn(vec) == IF vec = <<>> THEN RErr(Err("EmptyList")) ELSE ROk(SubValue(Front(vec)))
null_fn(vec) == ROk(Truth(vec = <<>>))
add1_fn(i) ==
    IF i + 1 > IntegerMax
    THEN ROverflow(Integer((i + 1) % (IntegerMax + 1)))
    ELSE ROk(Integer(i + 1))
sub1_fn(i) == IF i > 0 THEN ROk(Integer(i - 1)) ELSE RErr(Err("SubZero"))
zero_fn(i) == ROk(Truth(i = 0))

\* The closure of the arm func_name, applied to the popped operand.
closure_of(func_name, x) ==
    CASE func_name = "car" -> car_fn(x)
      [] func_name = "cdr" -> cdr_fn(x)
      [] func_name = "null?" -> null_fn(x)
      [] func_name = "add1" -> add1_fn(x)
      [] func_name = "sub1" -> sub1_fn(x)
      [] func_name = "zero?" -> zero_fn(x)

\* unitary_int: pop an Integer, push f(i) or return f's error.  Where f overflows,
\* a build with overflow checks panics and a build without them wraps around.
unitary_int(m, func_name) ==
    IF m.return_values = <<>>
    THEN Panic(m)
    ELSE LET top == Last(m.return_values)
             m1 == [m EXCEPT !.return_values = Front(@)]
         IN  IF top.t /= "Integer"
             THEN Fail(m1, Err("ArgumentTypeMismatch"))
             ELSE LET r == closure_of(func_name, top.i)
                      m2 == [m1 EXCEPT !.overflowed = TRUE]
                  IN  IF r.ovf
                      THEN IF m.checks = "on" THEN Panic(m2) ELSE Push(m2, r.v)
                      ELSE IF r.ok THEN Push(m1, r.v) ELSE Fail(m1, r.e)

\* unitary_list: pop a SubValue, push f(vec) or return f's error.
unitary_list(m, func_name) ==
    IF m.return_values = <<>>
    THEN Panic(m)
    ELSE LET top == Last(m.return_values)
             m1 == [m EXCEPT !.return_values = Front(@)]
         IN  IF top.t /= "SubValue"
             THEN Fail(m1, Err("ArgumentTypeMismatch"))
             ELSE LET r == closure_of(func_name, top.v)
                  IN  IF r.ok THEN Push(m1, r.v) ELSE Fail(m1, r.e)

\* The variant of cons that puts the new element at the front of the vector.
cons_fn_front(m) ==
    IF Len(m.return_values) < 2
    THEN Panic(m)
    ELSE LET top == Last(m.return_values)
             x == m.return_values[Len(m.return_values) - 1]
         IN  IF top.t = "SubValue"
             THEN [m EXCEPT !.return_values =
                      Append(SubSeq(@, 1, Len(@) - 2), SubValue(<<x>> \o top.v))]
             ELSE Fail(m, Err("ArgumentTypeMismatch"))

\* The arm ("cons", 2).
cons_fn(m) ==
    IF Len(m.return_values) < 2
    THEN Panic(m)
    ELSE LET top == Last(m.return_values)
             x == m.return_values[Len(m.return_values) - 1]
         IN  IF top.t = "SubValue"
             THEN [m EXCEPT !.return_values =
                      Append(SubSeq(@, 1, Len(@) - 2), SubValue(Append(top.v, x)))]
             ELSE Fail(m, Err("ArgumentTypeMismatch"))

\* The variant whose arms accept any operand count.
do_EvalFunctionEager_any_count(m, func_name, arg_count) ==
    CASE func_name = "list" ->
           IF Len(m.return_values) < arg_count
           THEN Panic(m)
           ELSE LET len == Len(m.return_values)
                IN  [m EXCEPT !.return_values =
                       Append(SubSeq(@, 1, len - arg_count),
                              SubValue(SubSeq(@, len - arg_count + 1, len)))]
      [] func_name \in {"car", "cdr", "null?"} -> unitary_list(m, func_name)
      [] func_name \in {"add1", "sub1", "zero?"} -> unitary_int(m, func_name)
      [] func_name = "cons" -> cons_fn(m)
      [] OTHER -> Fail(m, UnknownVariable(func_name))

\* func_match!: the name selects the arm, the arm's count pattern must match.
do_EvalFunctionEager(m, func_name, arg_count) ==
    LET arity(n, body) ==
            IF arg_count = n THEN body ELSE Fail(m, Err("ArgumentCountMismatch"))
    IN  CASE func_name = "list" ->
               IF Len(m.return_values) < arg_count
               THEN Panic(m)
               ELSE LET len == Len(m.return_values)
                    IN  [m EXCEPT !.return_values =
                           Append(SubSeq(@, 1, len - arg_count),
                                  SubValue(SubSeq(@, len - arg_count + 1, len)))]
          [] func_name = "car" -> arity(1, unitary_list(m, func_name))
          [] func_name = "cdr" -> arity(1, unitary_list(m, func_name))
          [] func_name = "null?" -> arity(1, unitary_list(m, func_name))
          [] func_name = "add1" -> arity(1, unitary_int(m, func_name))
          [] func_name = "sub1" -> arity(1, unitary_int(m, func_name))
          [] func_name = "cons" -> arity(2, cons_fn(m))
          [] func_name = "zero?" -> arity(1, unitary_int(m, func_name))
          [] OTHER -> Fail(m, UnknownVariable(func_name))

RECURSIVE bind_each(_, _)
bind_each(m, names) ==
    IF names = <<>> THEN m
    ELSE IF m.return_values = <<>> THEN Panic(m)
    ELSE bind_each([m EXCEPT !.state = set_variable(@, Head(names), Last(m.return_values)),
                             !.return_values = Front(@)],
                   Tail(names))

do_BindArguments(m, name_mapping) == bind_each(m, name_mapping)

\* The variant that takes the other branch.
do_PopCondPush_swapped(m, true_expr, false_expr) ==
    IF m.return_values = <<>>
    THEN Panic(m)
    ELSE LET top == Last(m.return_values)
             m1 == [m EXCEPT !.return_values = Front(@)]
         IN  IF top.t = "Truth"
             THEN PushInstrs(m1, <<IEvalAndPush(IF top.b THEN false_expr ELSE true_expr)>>)
             ELSE Fail(m1, Err("ArgumentTypeMismatch"))

do_PopCondPush(m, true_expr, false_expr) ==
    IF m.return_values = <<>>
    THEN Panic(m)
    ELSE LET top == Last(m.return_values)
             m1 == [m EXCEPT !.return_values = Front(@)]
         IN  IF top.t = "Truth"
             THEN PushInstrs(m1, <<IEvalAndPush(IF top.b THEN true_expr ELSE false_expr)>>)
             ELSE Fail(m1, Err("ArgumentTypeMismatch"))

\* The variant that returns the value it has bound.
do_PopAndSet_returns_value(m, var_name) ==
    IF m.return_values = <<>>
    THEN Panic(m)
    ELSE [m EXCEPT !.state = set_variable(@, var_name, Last(m.return_values))]

do_PopAndSet(m, var_name) ==
    IF m.return_values = <<>>
    THEN Panic(m)
    ELSE [m EXCEPT !.state = set_variable(@, var_name, Last(m.return_values)),
                   !.return_values = Append(Front(@), SubValue(<<>>))]

\* One turn of `while let Some(instr) = instructions.pop() { match instr .. }`.
Step(m) ==
    LET instr == Last(m.instructions)
        m0 == [m EXCEPT !.instructions = Front(@)]
    IN  CASE instr.i = "PopState" -> do_PopState(m0)
          [] instr.i = "EvalAndPush" -> do_EvalAndPush(m0, instr.e)
          [] instr.i = "EvalFunction" -> do_EvalFunction(m0, instr.l)
          [] instr.i = "EvalFunctionEager" -> do_EvalFunctionEager(m0, instr.n, instr.c)
          [] instr.i = "BindArguments" -> do_BindArguments(m0, instr.a)
          [] instr.i = "PopCondPush" -> do_PopCondPush(m0, instr.a, instr.b)
          [] instr.i = "PopAndSet" -> do_PopAndSet(m0, instr.n)

(***************************************************************************)
(* What eval hands back to its caller.                                     *)
(***************************************************************************)
NoVal == [t |-> "none"]
Ok(v) == [kind |-> "ok", val |-> v, error |-> NoErr]
Failed(e) == [kind |-> "err", val |-> NoVal, error |-> e]
Panicked == [kind |-> "panic", val |-> NoVal, error |-> NoErr]
NoOutcome == [kind |-> "none", val |-> NoVal, error |-> NoErr]

\* The four assertions after the loop.
final_assertions(m) ==
    /\ m.stack_pointers = <<0>>
    /\ m.instructions = <<>>
    /\ m.states = <<>>
    /\ Len(m.return_values) = 1

\* The value of eval once the loop has ended (m.status = "run", no instruction
\* left) or has been left early.
eval_result(m) ==
    CASE m.status = "err" -> Failed(m.error)
      [] m.status = "panic" -> Panicked
      [] OTHER -> IF final_assertions(m) THEN Ok(Last(m.return_values)) ELSE Panicked

\* The variant that writes the working state back on every exit.
caller_state_always(init, m) == IF m.status = "panic" THEN init ELSE m.state

\* The caller's state after eval: `*init_state = state` is reached only when the
\* loop ends; an early `return Err(..)` and a panic inside the loop leave it alone.
caller_state(init, m) == IF m.status = "run" THEN m.state ELSE init

\* eval run to its end, as a function of its arguments.
RECURSIVE run(_)
run(m) ==
    IF m.status /= "run" \/ m.instructions = <<>> THEN m ELSE run(Step(m))

eval(e, init, order) == eval_result(run(eval_init(e, init, order)))

(***************************************************************************)
(* Expressions as the parser hands them to eval: the special forms are the *)
(* symbols define / cond / lambda at the head of a list.                   *)
(***************************************************************************)
Num(i) == Value(Integer(i))
App(items) == SubExpr(items)
Params(names) == SubExpr([i \in 1..Len(names) |-> OpVar(names[i])])
Lam(names, body) == SubExpr(<<OpVar("lambda"), Params(names), body>>)
Def(name, e) == SubExpr(<<OpVar("define"), OpVar(name), e>>)
Cnd(test, a, b) == SubExpr(<<OpVar("cond"), test, a, b>>)

IsDefine(e) ==
    /\ e.k = "SubExpr"
    /\ Len(e.l) = 3
    /\ e.l[1] = OpVar("define")
    /\ e.l[2].k = "OpVar"
DefineName(e) == e.l[2].n

\* Small operand values.
Lits == {0, 1}

\* (define x v), (define x (sub1 0)), (define n 2)
DefX(v) == Def("x", Num(v))
DefXFail == Def("x", App(<<OpVar("sub1"), Num(0)>>))
DefN == Def("n", Num(2))
\* (lambda (x y) (list x y)) and (define f (lambda (x y) (list x y)))
PairFn == Lam(<<"x", "y">>, App(<<OpVar("list"), OpVar("x"), OpVar("y")>>))
DefF == Def("f", PairFn)
\* (define loop (lambda (n) (cond (zero? n) 0 (loop (sub1 n)))))
LoopFn ==
    Lam(<<"n">>, Cnd(App(<<OpVar("zero?"), OpVar("n")>>),
                     Num(0),
                     App(<<OpVar("loop"), App(<<OpVar("sub1"), OpVar("n")>>)>>)))
DefLoop == Def("loop", LoopFn)
LoopProg(k) == App(<<OpVar("loop"), Num(k)>>)

Defines == {DefX(1), DefX(2), DefXFail, DefN, DefF, DefLoop}

\* Currying: f applied to all of args at once, and to the first k and then the rest.
CurryCases ==
    {[f |-> f, args |-> <<Num(a), Num(b)>>, k |-> k] :
        f \in {OpVar("f"), PairFn}, a \in Lits, b \in Lits \ {0}, k \in 0..1}
Full(c) == App(<<c.f>> \o c.args)
Curried(c) ==
    App(<<App(<<c.f>> \o SubSeq(c.args, 1, c.k))>> \o SubSeq(c.args, c.k + 1, Len(c.args)))

\* Shadowing: ((lambda (x) (list ((lambda (x) x) b) x)) a) and, at top level,
\* (list ((lambda (x) x) b) x).
Ident == Lam(<<"x">>, OpVar("x"))
ShadowCases == {[a |-> a, b |-> b] : a \in Lits, b \in Lits}
ShadowInner(c) == App(<<OpVar("list"), App(<<Ident, Num(c.b)>>), OpVar("x")>>)
ShadowProg(c) == App(<<Lam(<<"x">>, ShadowInner(c)), Num(c.a)>>)
\* ((lambda (x) ((lambda (x y) (list x y)) ((lambda (x) x) b) x)) a): the same with
\* the outer body a call of a custom function whose first parameter is x too.
ShadowViaCall(c) ==
    App(<<Lam(<<"x">>, App(<<PairFn, App(<<Ident, Num(c.b)>>), OpVar("x")>>)), Num(c.a)>>)
\* (((lambda (x) (lambda (x) x)) a) b): the inner lambda applied after the outer call.
ShadowReturned(c) == App(<<App(<<Lam(<<"x">>, Ident), Num(c.a)>>), Num(c.b)>>)

\* Closures: (((lambda (n) (lambda (x) n)) a) 0) and
\* ((lambda (g n) (g 0)) ((lambda (n) (lambda (x) n)) a) c).
MakeConst(a) == App(<<Lam(<<"n">>, Lam(<<"x">>, OpVar("n"))), Num(a)>>)
ClosureCases == {[a |-> a, c |-> c] : a \in Lits, c \in Lits}
ClosureTop(c) == App(<<MakeConst(c.a), Num(0)>>)
ClosureInCall(c) ==
    App(<<Lam(<<"g", "n">>, App(<<OpVar("g"), Num(0)>>)), MakeConst(c.a), Num(c.c)>>)

\* (list (define x 1) (sub1 0)): a binding made on the way to an error.
DefThenFail == App(<<OpVar("list"), DefX(1), App(<<OpVar("sub1"), Num(0)>>)>>)
\* ((lambda (x) (car (list))) 1): an error inside a call.
FailInCall == App(<<Lam(<<"x">>, App(<<OpVar("car"), App(<<OpVar("list")>>)>>)), Num(1)>>)

\* Lists: (list x1 .. xn), (car (list ..)), (cdr (list ..)) and the chain
\* (cons x1 (cons x2 .. (cons xn (list)))), for x1 .. xn small integers.
ListCases == UNION {[1..n -> Lits] : n \in 0..MaxList}
Nums(xs) == [i \in 1..Len(xs) |-> Num(xs[i])]
IntegerSeq(xs) == [i \in 1..Len(xs) |-> Integer(xs[i])]
ListProg(xs) == App(<<OpVar("list")>> \o Nums(xs))
CarProg(xs) == App(<<OpVar("car"), ListProg(xs)>>)
CdrProg(xs) == App(<<OpVar("cdr"), ListProg(xs)>>)
RECURSIVE ConsChain(_)
ConsChain(xs) ==
    IF xs = <<>> THEN ListProg(<<>>)
    ELSE App(<<OpVar("cons"), Num(Head(xs)), ConsChain(Tail(xs))>>)
ListPrograms ==
    {ListProg(xs) : xs \in ListCases} \cup {ConsChain(xs) : xs \in ListCases}
    \cup {CarProg(xs) : xs \in ListCases} \cup {CdrProg(xs) : xs \in ListCases}

\* (car (cons x l)), (cdr (cons x l)) and (null? (cons x l)), for x an integer or
\* the empty list and l the empty list or (list 1 0).
ConsCases == {[x |-> x, l |-> ListProg(xs)] : x \in {Num(0), Num(1), ListProg(<<>>)},
                                             xs \in {<<>>, <<1, 0>>}}
ConsProg(c) == App(<<OpVar("cons"), c.x, c.l>>)
CarCons(c) == App(<<OpVar("car"), ConsProg(c)>>)
CdrCons(c) == App(<<OpVar("cdr"), ConsProg(c)>>)
NullCons(c) == App(<<OpVar("null?"), ConsProg(c)>>)
ConsPrograms ==
    {CarCons(c) : c \in ConsCases} \cup {CdrCons(c) : c \in ConsCases}
    \cup {NullCons(c) : c \in ConsCases}

\* (add1 n), for n small and for n at the top of the range.
AddProg(n) == App(<<OpVar("add1"), Num(n)>>)
AddPrograms == {AddProg(n) : n \in {0, IntegerMax - 1, IntegerMax}}

\* (list (define x 1)): a define inside an expression that is not a define.
DefInList == App(<<OpVar("list"), DefX(1)>>)
\* ((lambda (x) (define n 1)) 0): a define inside a function body.
DefInBody == App(<<Lam(<<"x">>, Def("n", Num(1))), Num(0)>>)

\* A free symbol as the whole expression, as an operand and as the callee.
FreeWhole == OpVar("y")
FreeOperand == App(<<OpVar("list"), OpVar("y")>>)
FreeCallee == App(<<OpVar("y"), Num(0)>>)

\* (define g (lambda (x) (f x x))): g refers to f, which may be defined later.
DefG == Def("g", Lam(<<"x">>, App(<<OpVar("f"), OpVar("x"), OpVar("x")>>)))
\* (g a), and ((lambda (h f) (h a)) g 0): g called where the caller binds f.
CallG(a) == App(<<OpVar("g"), Num(a)>>)
CallGShadowed(a) ==
    App(<<Lam(<<"y", "f">>, App(<<OpVar("y"), Num(a)>>)), OpVar("g"), Num(0)>>)
\* ((lambda (y loop) (y 1)) loop 0): loop called where the caller binds loop.
LoopShadowed ==
    App(<<Lam(<<"y", "loop">>, App(<<OpVar("y"), Num(1)>>)), OpVar("loop"), Num(0)>>)

\* A custom function of arity at least 1 applied to no operand.
ZeroCalls == {App(<<h>>) : h \in {PairFn, Ident, OpVar("f"), OpVar("loop")}}

\* Two failing operands in one call: (sub1 0) fails with SubZero, (car (list))
\* with EmptyList.
FailSub == App(<<OpVar("sub1"), Num(0)>>)
FailCar == App(<<OpVar("car"), ListProg(<<>>)>>)
OrderCases == {<<FailSub, FailCar>>, <<FailCar, FailSub>>}
OrderBuiltin(c) == App(<<OpVar("list")>> \o c)
OrderCustom(c) == App(<<PairFn>> \o c)
OrderNamed(c) == App(<<OpVar("f")>> \o c)

\* An operand that fails at run time followed by a defect the resolver rejects:
\* a nested define, a special-form token in value position, an empty call, a cond
\* with two operands, a lambda with one operand.  e is the expression handed to
\* eval, src the same expression as the resolver's LispExpr.
Defects ==
    {[e |-> DefX(1),
      src |-> [k |-> "Call", l |-> <<[k |-> "Macro", m |-> "Define"], OpVar("x"), Num(1)>>]],
     [e |-> OpVar("cond"),
      src |-> [k |-> "Macro", m |-> "Cond"]],
     [e |-> SubExpr(<<>>),
      src |-> [k |-> "Call", l |-> <<>>]],
     [e |-> SubExpr(<<OpVar("cond"), Num(0), Num(0)>>),
      src |-> [k |-> "Call", l |-> <<[k |-> "Macro", m |-> "Cond"], Num(0), Num(0)>>]],
     [e |-> SubExpr(<<OpVar("lambda"), Params(<<"x">>)>>),
      src |-> [k |-> "Call", l |-> <<[k |-> "Macro", m |-> "Lambda"],
                                     [k |-> "Call", l |-> <<OpVar("x")>>]>>]]}
FailThenDefect(d) == App(<<OpVar("list"), FailSub, d.e>>)
FailThenDefectSrc(d) ==
    [k |-> "Call",
     l |-> <<OpVar("list"), [k |-> "Call", l |-> <<OpVar("sub1"), Num(0)>>], d.src>>]

\* The empty call (), as the whole expression, as an operand, as the callee and
\* as a branch of a cond.
EmptyCall == SubExpr(<<>>)
EmptyCalls ==
    {EmptyCall, App(<<OpVar("list"), EmptyCall>>), App(<<EmptyCall>>),
     Cnd(OpVar("#t"), EmptyCall, Num(0))}

\* A special-form token that is not the first element of a call: (cond cond cond
\* cond), (list lambda), and define as the whole expression.
TokenPrograms ==
    {Cnd(OpVar("cond"), OpVar("cond"), OpVar("cond")),
     App(<<OpVar("list"), OpVar("lambda")>>),
     OpVar("define")}

\* (cond test then else): the test is #t, #f, a non-Boolean or fails; one branch
\* fails at run time.
CondCases ==
    {[test |-> t, a |-> br[1], b |-> br[2]] :
        t \in {OpVar("#t"), OpVar("#f"), Num(0), FailSub},
        br \in {<<Num(1), FailCar>>, <<FailSub, Num(1)>>}}
CondProg(c) == Cnd(c.test, c.a, c.b)
CondPrograms == {CondProg(c) : c \in CondCases}

\* A fixed-arity builtin applied to a wrong number of operands, of mixed types.
Unary == {"add1", "sub1", "zero?", "null?", "car", "cdr"}
MixedOperands == <<Num(0), ListProg(<<>>), Num(0)>>
ArityCases ==
    {[f |-> f, n |-> n] : f \in Unary, n \in {0, 2}}
    \cup {[f |-> "cons", n |-> n] : n \in {1, 3}}
ArityProg(c) == App(<<OpVar(c.f)>> \o SubSeq(MixedOperands, 1, c.n))

\* (sub1 k)
SubProg(k) == App(<<OpVar("sub1"), Num(k)>>)

\* (int? v), (bool? v), (list? v), (fun? v) for v an Integer and a Boolean.
TypePredicates == {"int?", "bool?", "list?", "fun?"}
TypeCases ==
    {[p |-> p, v |-> v, type |-> v.type] :
        p \in TypePredicates,
        v \in {[e |-> Num(0), type |-> "int?"], [e |-> OpVar("#t"), type |-> "bool?"]}}
TypeProg(c) == App(<<OpVar(c.p), c.v.e>>)

Others == {OpVar("x"), App(<<OpVar("sub1"), Num(0)>>), DefThenFail, FailInCall}

Programs ==
    Defines
    \cup {Full(c) : c \in CurryCases} \cup {Curried(c) : c \in CurryCases}
    \cup {ShadowProg(c) : c \in ShadowCases} \cup {ShadowInner(c) : c \in ShadowCases}
    \cup {ShadowReturned(c) : c \in ShadowCases} \cup {ShadowViaCall(c) : c \in ShadowCases}
    \cup {ClosureTop(c) : c \in ClosureCases} \cup {ClosureInCall(c) : c \in ClosureCases}
    \cup {LoopProg(k) : k \in 0..MaxLoop}
    \cup Others
    \cup ListPrograms
    \cup {DefInList, DefInBody, FreeWhole, FreeOperand, FreeCallee, DefG}
    \cup {CallG(a) : a \in Lits} \cup {CallGShadowed(a) : a \in Lits}
    \cup {LoopShadowed}
    \cup ConsPrograms \cup AddPrograms
    \cup ZeroCalls
    \cup {OrderBuiltin(c) : c \in OrderCases} \cup {OrderCustom(c) : c \in OrderCases}
    \cup {OrderNamed(c) : c \in OrderCases}
    \cup {FailThenDefect(d) : d \in Defects}
    \cup EmptyCalls \cup TokenPrograms
    \cup CondPrograms
    \cup {ArityProg(c) : c \in ArityCases}
    \cup {SubProg(k) : k \in 0..MaxLoop}
    \cup {TypeProg(c) : c \in TypeCases}

(***************************************************************************)
(* The evaluator as a state machine: the caller calls eval on one          *)
(* environment, eval runs one instruction per step, and returns.           *)
(***************************************************************************)
Machine ==
    [return_values |-> return_values, states |-> states, state |-> state,
     instructions |-> instructions, stack_pointers |-> stack_pointers,
     status |-> "run", error |-> NoErr, order |-> iter_order,
     checks |-> overflow_checks, overflowed |-> FALSE]

NotClosed == [level |-> 0, stack |-> <<>>, e |-> Value(Truth(FALSE))]

ResolverIdle ==
    /\ r_pc = "src"
    /\ r_src = Value(Truth(FALSE))
    /\ r_own = ""
    /\ r_out = [err |-> NoErr, e |-> Value(Truth(FALSE))]
    /\ r_closed = NotClosed

CacheIdle ==
    /\ func = [arg_count |-> 0, body |-> Value(Truth(FALSE)), byte_code |-> <<>>]
    /\ compile_log = <<>>

Init ==
    /\ init_state = StateNew
    /\ state = StateNew
    /\ return_values = <<>>
    /\ states = <<>>
    /\ instructions = <<>>
    /\ stack_pointers = <<0>>
    /\ pc = "idle"
    /\ expr = Value(Truth(FALSE))
    /\ before = StateNew
    /\ outcome = NoOutcome
    /\ iter_order \in {"fwd", "rev"}
    /\ n_evals = 0
    /\ overflow_checks = "any"
    /\ ResolverIdle
    /\ CacheIdle

\* Store the locals after a turn of the loop; leave eval if the turn returned.
Store(m) ==
    /\ return_values' = m.return_values
    /\ states' = m.states
    /\ state' = m.state
    /\ instructions' = m.instructions
    /\ stack_pointers' = m.stack_pointers
    /\ IF m.status = "run"
       THEN /\ pc' = "run"
            /\ outcome' = outcome
            /\ init_state' = init_state
       ELSE /\ pc' = "done"
            /\ outcome' = eval_result(m)
            /\ init_state' = caller_state(init_state, m)
    /\ overflow_checks' = IF m.overflowed THEN m.checks ELSE overflow_checks
    /\ UNCHANGED <<expr, before, iter_order, n_evals, resolverVars, cacheVars>>

\* The loop is running and its next instruction is of this kind.
TopIs(kind) ==
    /\ pc = "run"
    /\ instructions /= <<>>
    /\ Last(instructions).i = kind

\* The caller: eval(&e, &mut init_state).
Eval(e) ==
    /\ pc \in {"idle", "done"}
    /\ n_evals < MaxEvals
    /\ LET m == eval_init(e, init_state, iter_order)
       IN  /\ return_values' = m.return_values
           /\ states' = m.states
           /\ state' = m.state
           /\ instructions' = m.instructions
           /\ stack_pointers' = m.stack_pointers
    /\ pc' = "run"
    /\ expr' = e
    /\ before' = init_state
    /\ outcome' = NoOutcome
    /\ n_evals' = n_evals + 1
    /\ UNCHANGED <<init_state, iter_order, overflow_checks, resolverVars, cacheVars>>

PopState ==
    /\ TopIs("PopState")
    /\ Store(Step(Machine))

EvalAndPush ==
    /\ TopIs("EvalAndPush")
    /\ Store(Step(Machine))

EvalFunction ==
    /\ TopIs("EvalFunction")
    /\ Store(Step(Machine))

\* The same binary runs every eval: once an overflow has shown whether the build
\* checks for it, that is settled.
EvalFunctionEager ==
    /\ TopIs("EvalFunctionEager")
    /\ \E c \in IF overflow_checks = "any" THEN {"on", "off"} ELSE {overflow_checks} :
          Store(Step([Machine EXCEPT !.checks = c]))

BindArguments ==
    /\ TopIs("BindArguments")
    /\ Store(Step(Machine))

PopCondPush ==
    /\ TopIs("PopCondPush")
    /\ Store(Step(Machine))

PopAndSet ==
    /\ TopIs("PopAndSet")
    /\ Store(Step(Machine))


\* The loop has ended: write the state back, assert, return the value.
Return ==
    /\ pc = "run"
    /\ instructions = <<>>
    /\ init_state' = caller_state(init_state, Machine)
    /\ outcome' = eval_result(Machine)
    /\ pc' = "done"
    /\ UNCHANGED <<state, return_values, states, instructions, stack_pointers,
                   expr, before, iter_order, n_evals, overflow_checks,
                   resolverVars, cacheVars>>

Next ==
    \/ \E e \in Programs : Eval(e)
    \/ PopState
    \/ EvalAndPush
    \/ EvalFunction
    \/ EvalFunctionEager
    \/ BindArguments
    \/ PopCondPush
    \/ PopAndSet
    \/ Return

Spec == Init /\ [][Next]_vars

(***************************************************************************)
(* The resolver of lib.rs.  Its source LispExpr is Macro / Value / OpVar / *)
(* Call; its output FinalizedExpr is written with an F prefix here, the    *)
(* names Value and Argument being taken by the evaluator's LispExpr.       *)
(***************************************************************************)
Macro(mac) == [k |-> "Macro", m |-> mac]
Call(l) == [k |-> "Call", l |-> l]

FLambda(arity, s, body) == [k |-> "Lambda", arity |-> arity, s |-> s, body |-> body]
FCond(test, a, b) == [k |-> "Cond", test |-> test, a |-> a, b |-> b]
FVariable(n) == [k |-> "Variable", n |-> n]
FValue(v) == [k |-> "Value", v |-> v]
FArgument(o, s, mv) == [k |-> "Argument", o |-> o, s |-> s, mv |-> mv]
FFunctionCall(head, args, tail, self) ==
    [k |-> "FunctionCall", head |-> head, args |-> args, tail |-> tail, self |-> self]

\* EvaluationResult<FinalizedExpr>, with the moveable cells of `arguments` as the
\* call left them (the map holds Cell<bool>, which finalize writes through &).
FinOk(e, arguments) == [err |-> NoErr, e |-> e, args |-> arguments]
FinErr(e, arguments) == [err |-> Err(e), e |-> FValue(Truth(FALSE)), args |-> arguments]

NoArguments == [n \in {} |-> [scope |-> 0, offset |-> 0, mv |-> FALSE]]

\* LispExpr::OpVar(n): an argument of the map (moveable.replace(false)) or a Variable.
finalize_opvar(n, arguments) ==
    IF n \in DOMAIN arguments
    THEN FinOk(FArgument(arguments[n].offset, arguments[n].scope, arguments[n].mv),
               [arguments EXCEPT ![n].mv = FALSE])
    ELSE FinOk(FVariable(n), arguments)

\* is_self_call: the head is a symbol equal to own_name (None is "").
is_self_call(head_expr, own_name) ==
    /\ head_expr.k = "OpVar"
    /\ own_name /= ""
    /\ head_expr.n = own_name

\* The variant that gives the parameters the scope of the body.
lambda_arguments_body_scope(arguments, arg_vec, scope_level) ==
    LET params == {arg_vec[i].n : i \in 1..Len(arg_vec)}
        last(n) == CHOOSE i \in 1..Len(arg_vec) :
                      /\ arg_vec[i].n = n
                      /\ \A j \in 1..Len(arg_vec) : arg_vec[j].n = n => j <= i
    IN  [n \in DOMAIN arguments \cup params |->
            IF n \in params
            THEN [scope |-> scope_level + 1, offset |-> last(n) - 1, mv |-> TRUE]
            ELSE arguments[n]]

\* new_arguments: a clone of the map with every parameter inserted in order as
\* (scope_level, offset, Cell::new(true)); a later insert of a name overwrites.
lambda_arguments(arguments, arg_vec, scope_level) ==
    LET params == {arg_vec[i].n : i \in 1..Len(arg_vec)}
        last(n) == CHOOSE i \in 1..Len(arg_vec) :
                      /\ arg_vec[i].n = n
                      /\ \A j \in 1..Len(arg_vec) : arg_vec[j].n = n => j <= i
    IN  [n \in DOMAIN arguments \cup params |->
            IF n \in params
            THEN [scope |-> scope_level, offset |-> last(n) - 1, mv |-> TRUE]
            ELSE arguments[n]]

\* After both branches of a cond: each cell becomes the AND of the two maps' cells.
merge_moveable(arguments, false_expr_args) ==
    [n \in DOMAIN arguments |->
        [arguments[n] EXCEPT !.mv = arguments[n].mv /\ false_expr_args[n].mv]]

\* The variant that lets the test inherit can_tail_call.
cond_test_can_tail_inherit(can_tail_call) == can_tail_call

\* can_tail_call as passed to the test of a cond.
cond_test_can_tail(can_tail_call) == FALSE

RECURSIVE finalize(_, _, _, _, _)
RECURSIVE finalize_operands(_, _, _, _, _, _)

\* for e in expr_iter.rev(): the operands from the last to the first, each with
\* can_tail_call = false; acc is arg_finalized_expr after the final reverse().
finalize_operands(l, i, scope_level, arguments, own_name, acc) ==
    IF i = 0
    THEN [err |-> NoErr, es |-> acc, args |-> arguments]
    ELSE LET r == finalize(l[i], scope_level, arguments, FALSE, own_name)
         IN  IF r.err /= NoErr
             THEN [err |-> r.err, es |-> <<>>, args |-> r.args]
             ELSE finalize_operands(l, i - 1, scope_level, r.args, own_name, <<r.e>> \o acc)

\* head Macro(Cond): else on a clone of the map, then on the map, merge, test last.
finalize_cond(rest, scope_level, arguments, can_tail_call, own_name) ==
    IF Len(rest) /= 3
    THEN FinErr("ArgumentCountMismatch", arguments)
    ELSE LET rf == finalize(rest[3], scope_level, arguments, can_tail_call, own_name)
         IN  IF rf.err /= NoErr THEN [rf EXCEPT !.args = arguments]
             ELSE
         LET rt == finalize(rest[2], scope_level, arguments, can_tail_call, own_name)
         IN  IF rt.err /= NoErr THEN rt
             ELSE
         LET merged == merge_moveable(rt.args, rf.args)
             rc == finalize(rest[1], scope_level, merged,
                            cond_test_can_tail(can_tail_call), own_name)
         IN  IF rc.err /= NoErr THEN rc
             ELSE FinOk(FCond(rc.e, rt.e, rf.e), rc.args)

\* head Macro(Lambda): the body at scope_level + 1 on new_arguments; the caller's
\* map is left as it is.
finalize_lambda(rest, scope_level, arguments, own_name) ==
    IF Len(rest) /= 2
    THEN FinErr("ArgumentCountMismatch", arguments)
    ELSE IF rest[1].k /= "Call"
    THEN FinErr("ArgumentTypeMismatch", arguments)
    ELSE IF \E i \in 1..Len(rest[1].l) : rest[1].l[i].k /= "OpVar"
    THEN FinErr("MalformedDefinition", arguments)
    ELSE LET arg_vec == rest[1].l
             rb == finalize(rest[2], scope_level + 1,
                            lambda_arguments(arguments, arg_vec, scope_level),
                            TRUE, own_name)
         IN  IF rb.err /= NoErr THEN [rb EXCEPT !.args = arguments]
             ELSE FinOk(FLambda(Len(arg_vec), scope_level, rb.e), arguments)

\* Function evaluation: the operands, then the head, both with can_tail_call = false.
finalize_call(head_expr, rest, scope_level, arguments, can_tail_call, own_name) ==
    LET ro == finalize_operands(rest, Len(rest), scope_level, arguments, own_name, <<>>)
    IN  IF ro.err /= NoErr THEN [err |-> ro.err, e |-> FValue(Truth(FALSE)), args |-> ro.args]
        ELSE
    LET rh == finalize(head_expr, scope_level, ro.args, FALSE, own_name)
    IN  IF rh.err /= NoErr THEN rh
        ELSE FinOk(FFunctionCall(rh.e, ro.es, can_tail_call,
                                 is_self_call(head_expr, own_name)),
                   rh.args)

\* LispExpr::finalize (its `state` parameter is passed along and never read).
finalize(e, scope_level, arguments, can_tail_call, own_name) ==
    CASE e.k = "Value" -> FinOk(FValue(e.v), arguments)
      [] e.k = "OpVar" -> finalize_opvar(e.n, arguments)
      [] e.k = "Macro" -> FinErr("UnexpectedOperator", arguments)
      [] e.k = "Call" ->
           IF e.l = <<>>
           THEN FinErr("EmptyListEvaluation", arguments)
           ELSE CASE Head(e.l) = Macro("Cond") ->
                       finalize_cond(Tail(e.l), scope_level, arguments, can_tail_call, own_name)
                  [] Head(e.l) = Macro("Lambda") ->
                       finalize_lambda(Tail(e.l), scope_level, arguments, own_name)
                  [] Head(e.l) = Macro("Define") ->
                       FinErr("MalformedDefinition", arguments)
                  [] OTHER ->
                       finalize_call(Head(e.l), Tail(e.l), scope_level, arguments,
                                     can_tail_call, own_name)

\* TopExpr, as a Result: Define(name, definition) or Regular(finalized).
TopDefine(name, definition) ==
    [err |-> NoErr, top |-> "Define", name |-> name, e |-> definition]
TopRegular(fin) == [err |-> fin.err, top |-> "Regular", name |-> "", e |-> fin.e]
TopErr(e) == [err |-> Err(e), top |-> "Regular", name |-> "", e |-> FValue(Truth(FALSE))]

\* LispExpr::into_top_expr.
into_top_expr(e) ==
    IF e.k = "Call" /\ e.l /= <<>> /\ Head(e.l) = Macro("Define")
    THEN IF Len(e.l) /= 3
         THEN TopErr("ArgumentCountMismatch")
         ELSE IF e.l[2].k = "OpVar"
              THEN TopDefine(e.l[2].n, e.l[3])
              ELSE TopErr("BadDefine")
    ELSE TopRegular(finalize(e, 0, NoArguments, TRUE, ""))

\* stack[index] out of bounds: the call panics.
IndexPanic == [k |-> "IndexPanic"]

\* The variant that clones a Lambda as it is.
RECURSIVE replace_args_shallow(_, _, _)
replace_args_shallow(e, scope_level, stack) ==
    CASE e.k = "Argument" /\ e.s < scope_level ->
           IF e.o < Len(stack) THEN FValue(stack[e.o + 1]) ELSE IndexPanic
      [] e.k = "FunctionCall" ->
           FFunctionCall(replace_args_shallow(e.head, scope_level, stack),
                         [i \in 1..Len(e.args) |->
                             replace_args_shallow(e.args[i], scope_level, stack)],
                         e.tail, e.self)
      [] e.k = "Cond" ->
           FCond(replace_args_shallow(e.test, scope_level, stack),
                 replace_args_shallow(e.a, scope_level, stack),
                 replace_args_shallow(e.b, scope_level, stack))
      [] OTHER -> e

\* FinalizedExpr::replace_args.
RECURSIVE replace_args(_, _, _)
replace_args(e, scope_level, stack) ==
    CASE e.k = "Argument" /\ e.s < scope_level ->
           IF e.o < Len(stack) THEN FValue(stack[e.o + 1]) ELSE IndexPanic
      [] e.k = "FunctionCall" ->
           FFunctionCall(replace_args(e.head, scope_level, stack),
                         [i \in 1..Len(e.args) |->
                             replace_args(e.args[i], scope_level, stack)],
                         e.tail, e.self)
      [] e.k = "Cond" ->
           FCond(replace_args(e.test, scope_level, stack),
                 replace_args(e.a, scope_level, stack),
                 replace_args(e.b, scope_level, stack))
      [] e.k = "Lambda" ->
           FLambda(e.arity, e.s, replace_args(e.body, scope_level, stack))
      [] OTHER -> e

(***************************************************************************)
(* Source expressions handed to the resolver.                              *)
(***************************************************************************)
SX == OpVar("x")
SY == OpVar("y")
SF == OpVar("f")
SZ == Value(Integer(0))
SLam(names, body) ==
    Call(<<Macro("Lambda"), Call([i \in 1..Len(names) |-> OpVar(names[i])]), body>>)
SCond(test, a, b) == Call(<<Macro("Cond"), test, a, b>>)
SDef(name, e) == Call(<<Macro("Define"), OpVar(name), e>>)

SrcAtoms == {SZ, SX, SF}
SrcL1 ==
    SrcAtoms
    \cup {Call(<<h, a>>) : h \in {SX, SF}, a \in SrcAtoms}
    \cup {SLam(<<"y">>, SX), SLam(<<"y">>, SY), SLam(<<"x">>, SX)}
SrcTests == {SX, Call(<<SF, SX>>), Call(<<SX, SZ>>), SLam(<<"y">>, SX)}
SrcL2 ==
    SrcL1
    \cup {Call(<<h, a, b>>) : h \in {SX, SF}, a \in SrcL1, b \in SrcL1}
    \cup {SCond(t, a, b) : t \in SrcTests, a \in SrcTests, b \in SrcTests}
SrcParams == {<<"x">>, <<"f">>, <<"x", "x">>, <<"f", "x">>}
SrcLambdas == {SLam(ps, b) : ps \in SrcParams, b \in SrcL2}
SrcConds == {SCond(t, a, b) : t \in SrcTests, a \in SrcTests, b \in SrcTests}
\* A cond as an operand with a read of x to its right, which is resolved before it.
SrcCondOperands == {SLam(<<"x">>, Call(<<SF, c, SX>>)) : c \in SrcConds}
SrcMalformed ==
    {Call(<<>>), Macro("Cond"), Call(<<SF, Call(<<>>)>>),
     Call(<<SF, SDef("x", SZ)>>), SCond(SX, SX, Macro("Cond")),
     Call(<<Macro("Cond"), SX, SX>>), Call(<<Macro("Lambda"), SX, SX>>),
     Call(<<Macro("Lambda"), Call(<<SZ>>), SX>>),
     Call(<<Macro("Lambda"), Call(<<SX>>), SX, SX>>),
     Call(<<Macro("Define"), SZ, SZ>>), Call(<<Macro("Define"), SX>>)}
SrcExprs ==
    SrcL2 \cup SrcLambdas \cup SrcCondOperands
    \cup {SDef("f", e) : e \in SrcL1 \cup SrcLambdas}
    \cup SrcMalformed

(***************************************************************************)
(* The resolver as a state machine: a source expression is classified by   *)
(* into_top_expr; the EXPR of a define is then finalized under its name.   *)
(***************************************************************************)
EvalIdle ==
    /\ init_state = StateNew
    /\ state = StateNew
    /\ return_values = <<>>
    /\ states = <<>>
    /\ instructions = <<>>
    /\ stack_pointers = <<0>>
    /\ pc = "idle"
    /\ expr = Value(Truth(FALSE))
    /\ before = StateNew
    /\ outcome = NoOutcome
    /\ iter_order = "fwd"
    /\ n_evals = 0
    /\ overflow_checks = "any"

ROut(top) == [err |-> top.err, e |-> top.e]

InitResolver ==
    /\ EvalIdle
    /\ r_pc = "src"
    /\ r_src \in SrcExprs
    /\ r_own = ""
    /\ r_out = [err |-> NoErr, e |-> Value(Truth(FALSE))]
    /\ r_closed = NotClosed
    /\ CacheIdle

IntoTopExpr ==
    /\ r_pc = "src"
    /\ LET top == into_top_expr(r_src)
       IN  IF top.err = NoErr /\ top.top = "Define"
           THEN /\ r_pc' = "define"
                /\ r_own' = top.name
                /\ r_out' = ROut(top)
           ELSE /\ r_pc' = "out"
                /\ r_own' = ""
                /\ r_out' = ROut(top)
    /\ UNCHANGED <<r_src, r_closed, evalVars, cacheVars>>

\* TopExpr::Define(name, definition): the definition is finalized at scope 0 on an
\* empty map with own_name = Some(name).
FinalizeDefinition ==
    /\ r_pc = "define"
    /\ \E can_tail_call \in BOOLEAN :
          r_out' = ROut(finalize(r_out.e, 0, NoArguments, can_tail_call, r_own))
    /\ r_pc' = "out"
    /\ UNCHANGED <<r_src, r_own, r_closed, evalVars, cacheVars>>

\* The scope levels and value stacks replace_args is called with.
ScopeLevels == 0..2
Stacks == {<<Integer(1), Integer(2)>>, <<Truth(TRUE)>>}

\* e.replace_args(scope_level, stack) on a resolved expression.
ReplaceArgs ==
    /\ r_pc = "out"
    /\ r_out.err = NoErr
    /\ \E scope_level \in ScopeLevels, stack \in Stacks :
          r_closed' = [level |-> scope_level, stack |-> stack,
                       e |-> replace_args(r_out.e, scope_level, stack)]
    /\ r_pc' = "closed"
    /\ UNCHANGED <<r_src, r_own, r_out, evalVars, cacheVars>>

NextResolver == IntoTopExpr \/ FinalizeDefinition \/ ReplaceArgs

SpecResolver == InitResolver /\ [][NextResolver]_vars

(***************************************************************************)
(* The byte-code buffer of a custom function: the function is constructed  *)
(* with or without byte code, and compile is called on it again and again. *)
(***************************************************************************)
\* LispFunc::new_custom: the buffer starts as Vec::new().
new_custom(arg_count, body) ==
    [arg_count |-> arg_count, body |-> body, byte_code |-> <<>>]

\* CustomFunc::from_byte_code: a dummy body and the buffer as given.
from_byte_code(arg_count, bytecode) ==
    [arg_count |-> arg_count, body |-> FValue(Truth(FALSE)), byte_code |-> bytecode]

\* compile_finalized_expr(body, state): an error, or the instructions of body, of
\* which there is at least one since they leave the value of body behind.  What
\* it yields depends on `state`, which differs from one call to the next.
CompileOk(code) == [err |-> NoErr, code |-> code]
CompileErr(e) == [err |-> e, code |-> <<>>]
compile_finalized_expr(body) ==
    {CompileErr(UnknownVariable("x")), CompileOk(<<[i |-> "Compiled", e |-> body]>>)}

\* The variant that compiles on every call.
compile_uncached(f, compiled) ==
    IF compiled.err /= NoErr
    THEN [func |-> f, ret |-> compiled, wrote |-> FALSE]
    ELSE [func |-> [f EXCEPT !.byte_code = compiled.code],
          ret |-> CompileOk(compiled.code), wrote |-> TRUE]

\* CustomFunc::compile, `compiled` being what compile_finalized_expr returns if it
\* is called: the function after the call, the Result, and whether the buffer
\* was assigned.
compile(f, compiled) ==
    IF f.byte_code /= <<>>
    THEN [func |-> f, ret |-> CompileOk(f.byte_code), wrote |-> FALSE]
    ELSE IF compiled.err /= NoErr
    THEN [func |-> f, ret |-> compiled, wrote |-> FALSE]
    ELSE [func |-> [f EXCEPT !.byte_code = compiled.code],
          ret |-> CompileOk(compiled.code), wrote |-> TRUE]

\* The functions compile is called on.
CacheBodies ==
    {FValue(Integer(0)), FVariable("x"), FArgument(0, 0, TRUE),
     FFunctionCall(FVariable("f"), <<FArgument(0, 0, TRUE)>>, TRUE, FALSE),
     FCond(FArgument(0, 0, FALSE), FArgument(0, 0, TRUE), FValue(Integer(0)))}
CacheCodes ==
    {<<>>, <<[i |-> "Compiled", e |-> FValue(Integer(1))]>>,
     <<[i |-> "Compiled", e |-> FArgument(0, 0, TRUE)],
       [i |-> "Compiled", e |-> FVariable("f")]>>}
CacheFuncs ==
    {new_custom(n, body) : n \in 0..1, body \in CacheBodies}
    \cup {from_byte_code(n, code) : n \in 0..1, code \in CacheCodes}

InitCache ==
    /\ EvalIdle
    /\ ResolverIdle
    /\ func \in CacheFuncs
    /\ compile_log = <<>>

\* f.compile(state).
Compile ==
    /\ Len(compile_log) < MaxCompiles
    /\ \E compiled \in compile_finalized_expr(func.body) :
          LET r == compile(func, compiled)
          IN  /\ func' = r.func
              /\ compile_log' = Append(compile_log,
                                       [ret |-> r.ret, wrote |-> r.wrote,
                                        buffer_before |-> func.byte_code,
                                        buffer |-> r.func.byte_code])
    /\ UNCHANGED <<evalVars, resolverVars>>

NextCache == Compile

SpecCache == InitCache /\ [][NextCache]_vars

(***************************************************************************)
(* Claims about the evaluator.                                             *)
(***************************************************************************)
Done == pc = "done"
Running == pc = "run"

\* C1 (currying law): for a custom function f of arity n and k < n, an eval of
\* ((f a1..ak) a(k+1)..an) returns what an eval of (f a1..an) returns from the
\* same environment: the same value or the same error.
C1_CurryingLaw ==
    \A c \in CurryCases :
        (Done /\ expr = Curried(c)) => outcome = eval(Full(c), before, iter_order)

\* C2 (define-once): an eval of (define NAME EXPR) on an environment that binds
\* NAME already returns BadDefine and leaves NAME bound to its first value.
C2_DefineOnce ==
    (Done /\ IsDefine(expr) /\ DefineName(expr) \in DOMAIN before)
        => /\ outcome = Failed(Err("BadDefine"))
           /\ DefineName(expr) \in DOMAIN init_state
           /\ init_state[DefineName(expr)] = before[DefineName(expr)]

\* C3 (error atomicity): when eval has returned an error, the caller's environment
\* is what it was when eval was called; a define whose EXPR failed has bound nothing.
C3_ErrorAtomicity ==
    (Done /\ outcome.kind = "err") => init_state = before

\* C3 witness: eval has returned an error after its working state had taken a
\* binding the caller's environment does not have.
C3_Witness ==
    /\ Done
    /\ outcome.kind = "err"
    /\ DOMAIN state /= DOMAIN init_state
    /\ init_state = before

\* C4 (lexical shadowing): in ((lambda (x) (list ((lambda (x) x) b) x)) a) the inner
\* x is b and, after the inner call, the outer x is still a; the same with the
\* outer x a top-level binding, and with the outer body a call of a custom
\* function; and a returned (lambda (x) x) applied to b yields b.
C4_LexicalShadowing ==
    Done =>
    \A c \in ShadowCases :
        /\ (expr = ShadowProg(c))
              => outcome = Ok(SubValue(<<Integer(c.b), Integer(c.a)>>))
        /\ (expr = ShadowInner(c))
              => /\ outcome = Ok(SubValue(<<Integer(c.b), get_variable_value(before, "x")>>))
                 /\ init_state = before
        /\ (expr = ShadowViaCall(c))
              => outcome = Ok(SubValue(<<Integer(c.b), Integer(c.a)>>))
        /\ (expr = ShadowReturned(c))
              => outcome = Ok(Integer(c.b))

\* C4 witness: the nested call has returned, with the inner and the outer x
\* different, in an environment whose top level binds x too.
C4_Witness ==
    /\ Done
    /\ "x" \in DOMAIN init_state
    /\ \E c \in ShadowCases :
          /\ c.a /= c.b
          /\ expr = ShadowProg(c)
          /\ outcome = Ok(SubValue(<<Integer(c.b), Integer(c.a)>>))

\* C5 (closure capture by value): the function made by (lambda (x) n) inside a call
\* with n = a returns a whenever it is applied, whatever n is bound to in the
\* environment or in the caller at that time.
C5_ClosureCapture ==
    \A c \in ClosureCases :
        /\ (Done /\ expr = ClosureTop(c)) => outcome = Ok(Integer(c.a))
        /\ (Done /\ expr = ClosureInCall(c)) => outcome = Ok(Integer(c.a))

\* The frame stack of an eval that has entered no call: stack_pointers = [0].
BaseFrames == 1

\* C6 (tail-call boundedness): while (loop k) runs, loop being the countdown that
\* calls itself in tail position, the frame stack holds at most the frame of one
\* call above the base, and one saved state, whatever k is.
C6_TailCallBounded ==
    (Running /\ "loop" \in DOMAIN before /\ \E k \in 0..MaxLoop : expr = LoopProg(k))
        => /\ Len(stack_pointers) <= BaseFrames + 1
           /\ Len(states) <= 1

(***************************************************************************)
(* Claims about the resolver.                                              *)
(***************************************************************************)
\* The resolver has produced an IR for r_src.
Resolved == r_pc = "out" /\ r_out.err = NoErr

RECURSIVE SubTerms(_)
SubTerms(e) ==
    {e} \cup
    CASE e.k = "FunctionCall" ->
           SubTerms(e.head) \cup UNION {SubTerms(e.args[i]) : i \in 1..Len(e.args)}
      [] e.k = "Cond" -> SubTerms(e.test) \cup SubTerms(e.a) \cup SubTerms(e.b)
      [] e.k = "Lambda" -> SubTerms(e.body)
      [] OTHER -> {}

\* The offsets of the slots of scope s that an expression names, at any depth.
SlotsNamed(e, s) == {a.o : a \in {t \in SubTerms(e) : t.k = "Argument" /\ t.s = s}}

\* The reads of the slots of scope s made by one evaluation of e, in the evaluator's
\* order, on each path: an Argument reads its slot; a call evaluates its operands
\* left to right and then its callee; a cond its test and then one branch; a lambda
\* snapshots, when it is evaluated, every slot its body names.
RECURSIVE Reads(_, _)
RECURSIVE ReadsOfAll(_, _)
ReadsOfAll(l, s) ==
    IF l = <<>> THEN {<<>>}
    ELSE {p \o q : p \in Reads(Head(l), s), q \in ReadsOfAll(Tail(l), s)}
Reads(e, s) ==
    CASE e.k = "Argument" ->
           IF e.s = s THEN {<<[slots |-> {e.o}, mv |-> e.mv]>>} ELSE {<<>>}
      [] e.k = "FunctionCall" -> ReadsOfAll(e.args \o <<e.head>>, s)
      [] e.k = "Cond" ->
           {p \o q : p \in Reads(e.test, s), q \in Reads(e.a, s) \cup Reads(e.b, s)}
      [] e.k = "Lambda" -> {<<[slots |-> SlotsNamed(e.body, s), mv |-> FALSE]>>}
      [] OTHER -> {<<>>}

MoveableSound(ir) ==
    \A lam \in {t \in SubTerms(ir) : t.k = "Lambda"} :
        \A p \in Reads(lam.body, lam.s) :
            \A i \in 1..Len(p) : \A j \in 1..Len(p) :
                (i < j /\ p[i].mv) => p[i].slots \cap p[j].slots = {}

\* C7 (moveable soundness): in every IR the resolver produces, once a read flagged
\* moveable has executed for a slot, no later evaluation in the same call reads
\* that slot: no Argument, no callee, no snapshot of a later lambda.
C7_MoveableSound == Resolved => MoveableSound(r_out.e)

RECURSIVE SelfOK(_, _)
SelfOK(e, own_name) ==
    CASE e.k = "FunctionCall" ->
           /\ e.self => (own_name /= "" /\ e.head = FVariable(own_name))
           /\ SelfOK(e.head, own_name)
           /\ \A i \in 1..Len(e.args) : SelfOK(e.args[i], own_name)
      [] e.k = "Cond" ->
           SelfOK(e.test, own_name) /\ SelfOK(e.a, own_name) /\ SelfOK(e.b, own_name)
      [] e.k = "Lambda" -> SelfOK(e.body, own_name)
      [] OTHER -> TRUE

\* C8 (self-call flag): in every IR the resolver produces, a FunctionCall has
\* is_self = true only if its callee resolved to Variable(name), name being the
\* name under definition; a call whose head is that name bound as a lambda
\* parameter is not flagged.
C8_SelfCallFlag == Resolved => SelfOK(r_out.e, r_own)

\* in_result: e is in the result position of what encloses it.
RECURSIVE TailOK(_, _)
TailOK(e, in_result) ==
    CASE e.k = "FunctionCall" ->
           /\ e.tail => in_result
           /\ TailOK(e.head, FALSE)
           /\ \A i \in 1..Len(e.args) : TailOK(e.args[i], FALSE)
      [] e.k = "Cond" ->
           TailOK(e.test, FALSE) /\ TailOK(e.a, in_result) /\ TailOK(e.b, in_result)
      [] e.k = "Lambda" -> TailOK(e.body, TRUE)
      [] OTHER -> TRUE

\* C9 as stated (tail flag): in every IR the resolver produces, a FunctionCall with
\* is_tail = true is in the result position of its enclosing lambda body, directly
\* or through the branches of conds; the top-level expression itself is the body
\* of no lambda.
C9_TailFlag_Stated == Resolved => TailOK(r_out.e, FALSE)

\* C9 as amended (tail flag): a FunctionCall with is_tail = true is in the result
\* position of its enclosing lambda body or, when no lambda encloses it, of the
\* whole resolved expression, directly or through the branches of conds; an
\* operand, a callee and a cond test of that body or expression is never flagged.
C9_TailFlag == Resolved => TailOK(r_out.e, TRUE)

\* C9 witness: a resolved lambda whose body is a cond with a call as its test (not
\* flagged) and a call as its then branch (flagged).
C9_Witness ==
    /\ Resolved
    /\ r_out.e.k = "Lambda"
    /\ r_out.e.body.k = "Cond"
    /\ r_out.e.body.test.k = "FunctionCall"
    /\ ~r_out.e.body.test.tail
    /\ r_out.e.body.a.k = "FunctionCall"
    /\ r_out.e.body.a.tail

\* enclosing: the (scope_level, arity) of the lambdas around e.
RECURSIVE ArgsOK(_, _)
ArgsOK(e, enclosing) ==
    CASE e.k = "Argument" -> \E lam \in enclosing : lam.s = e.s /\ e.o < lam.arity
      [] e.k = "FunctionCall" ->
           ArgsOK(e.head, enclosing) /\ \A i \in 1..Len(e.args) : ArgsOK(e.args[i], enclosing)
      [] e.k = "Cond" ->
           ArgsOK(e.test, enclosing) /\ ArgsOK(e.a, enclosing) /\ ArgsOK(e.b, enclosing)
      [] e.k = "Lambda" ->
           ArgsOK(e.body, enclosing \cup {[s |-> e.s, arity |-> e.arity]})
      [] OTHER -> TRUE

\* C10 (no dangling argument references): in every IR resolved from the top level,
\* each Argument(offset, s, _) lies inside a Lambda of scope_level s and arity
\* greater than offset; no Argument lies outside all lambdas.
C10_NoDanglingArguments == Resolved => ArgsOK(r_out.e, {})

\* C10 witness: a resolved lambda of scope 0 holding a lambda of scope 1 whose body
\* names a parameter of the outer one.
C10_Witness ==
    /\ Resolved
    /\ r_out.e.k = "Lambda"
    /\ r_out.e.s = 0
    /\ \E t \in SubTerms(r_out.e.body) :
          /\ t.k = "Lambda"
          /\ t.s = 1
          /\ \E a \in SubTerms(t.body) : a.k = "Argument" /\ a.s = 0

(***************************************************************************)
(* Claims about lists, the environment, names and calls.                   *)
(***************************************************************************)
\* C11 (list head and tail): for x1..xn with n >= 1, (car (list x1 .. xn)) returns
\* x1 and (cdr (list x1 .. xn)) returns what (list x2 .. xn) returns.
C11_ListHeadTail ==
    \A xs \in ListCases :
        Len(xs) >= 1 =>
            /\ (Done /\ expr = CarProg(xs)) => outcome = Ok(Integer(xs[1]))
            /\ (Done /\ expr = CdrProg(xs))
                  => outcome = eval(ListProg(Tail(xs)), before, iter_order)

\* C12 (list round-trip): the chain (cons x1 (cons x2 .. (cons xn (list)))) returns
\* what (list x1 .. xn) returns.
C12_ListRoundTrip ==
    \A xs \in ListCases :
        (Done /\ expr = ConsChain(xs)) => outcome = eval(ListProg(xs), before, iter_order)

\* C13 (cdr as tested): for x1..xn with n >= 1, (cdr (list x1 .. xn)) returns the
\* list x1 .. x(n-1), which is what (list x1 .. x(n-1)) returns.
C13_CdrAsTested ==
    Done =>
    \A xs \in ListCases :
        (Len(xs) >= 1 /\ expr = CdrProg(xs))
            => /\ outcome = Ok(SubValue(IntegerSeq(Front(xs))))
               /\ outcome = eval(ListProg(Front(xs)), before, iter_order)

\* C13 witness: (cdr (list 1 0)) has returned (1), a list whose first and last
\* elements differ.
C13_Witness ==
    /\ Done
    /\ expr = CdrProg(<<1, 0>>)
    /\ outcome = Ok(SubValue(<<Integer(1)>>))

\* C14 (termination post-condition): when the instruction stack is empty and no
\* error was returned, the value stack holds one value, no state is saved and the
\* frame pointers are [0], so the assertions after the loop hold.
C14_TerminationPostCondition ==
    (Running /\ instructions = <<>>) => final_assertions(Machine)

\* C14 witness: the loop has ended after calls of custom functions nested in one
\* another, in an environment with top-level definitions.
C14_Witness ==
    /\ Running
    /\ instructions = <<>>
    /\ \E c \in ShadowCases : expr = ShadowViaCall(c)
    /\ DOMAIN before /= DOMAIN StateNew
    /\ Len(return_values) = 1

\* C15 (only define changes the environment): an eval that succeeds on an
\* expression that is not a define leaves the caller's environment as it was.
C15_OnlyDefineChangesEnv ==
    (Done /\ outcome.kind = "ok" /\ ~IsDefine(expr)) => init_state = before

\* C16 (unknown names): a symbol that is neither bound nor a builtin makes eval
\* fail with UnknownVariable(name), as the whole expression, as an operand and
\* as the callee.
C16_UnknownNames ==
    (Done /\ expr \in {FreeWhole, FreeOperand, FreeCallee} /\ "y" \notin DOMAIN before)
        => outcome = Failed(UnknownVariable("y"))

\* C17 (late binding): a function whose body refers to a name defined after it
\* (g refers to f; loop refers to loop) works in every eval made once the name is
\* defined: (loop k) returns 0, and g applied to a returns (f a a) = (a a), from
\* the top level and from inside a call alike.
C17_LateBinding ==
    /\ \A k \in 0..MaxLoop :
          (Done /\ expr = LoopProg(k) /\ "loop" \in DOMAIN before)
              => outcome = Ok(Integer(0))
    /\ (Done /\ expr = LoopShadowed /\ "loop" \in DOMAIN before)
          => outcome = Ok(Integer(0))
    /\ \A a \in Lits :
          (Done /\ expr \in {CallG(a), CallGShadowed(a)} /\ {"f", "g"} \subseteq DOMAIN before)
              => outcome = Ok(SubValue(<<Integer(a), Integer(a)>>))

\* The callee of a zero-operand call is a custom function in the environment
\* `bound`: a lambda expression, or a name bound to a custom function.
HeadIsCustom(p, bound) ==
    \/ p.l[1].k = "SubExpr"
    \/ /\ p.l[1].k = "OpVar"
       /\ p.l[1].n \in DOMAIN bound
       /\ bound[p.l[1].n].t = "Function"

\* C18 (zero-operand call): a custom function of arity at least 1 applied to no
\* operand fails with ArgumentCountMismatch.
C18_ZeroOperandCall ==
    \A p \in ZeroCalls :
        (Done /\ expr = p /\ HeadIsCustom(p, before))
            => outcome = Failed(Err("ArgumentCountMismatch"))

\* C18 witness: (f) has failed with ArgumentCountMismatch, f being bound to the
\* two-parameter function.
C18_Witness ==
    /\ Done
    /\ expr = App(<<OpVar("f")>>)
    /\ "f" \in DOMAIN before
    /\ outcome = Failed(Err("ArgumentCountMismatch"))

\* C19 (operand evaluation order): when both operands of a call fail, to a builtin
\* or to a custom function, eval returns the error of the left operand.
C19_OperandOrder ==
    \A c \in OrderCases :
        /\ (Done /\ expr = OrderBuiltin(c)) => outcome = eval(c[1], before, iter_order)
        /\ (Done /\ expr = OrderCustom(c)) => outcome = eval(c[1], before, iter_order)
        /\ (Done /\ expr = OrderNamed(c) /\ "f" \in DOMAIN before)
              => outcome = eval(c[1], before, iter_order)

\* C20 (resolver errors come first): on (list (sub1 0) D), D a defect the resolver
\* rejects, eval returns the resolver's error for the expression, not SubZero.
C20_ResolverErrorsFirst ==
    \A d \in Defects :
        (Done /\ expr = FailThenDefect(d))
            => /\ into_top_expr(FailThenDefectSrc(d)).err /= NoErr
               /\ outcome = Failed(into_top_expr(FailThenDefectSrc(d)).err)

(***************************************************************************)
(* Claims about defects, conditionals, builtins, define and determinism.   *)
(***************************************************************************)
\* C21 (nested define): a define that is not the whole top-level expression - an
\* operand in (list (define x 1)), the body in ((lambda (x) (define n 1)) 0) -
\* fails with MalformedDefinition and binds nothing.
C21_NestedDefine ==
    (Done /\ expr \in {DefInList, DefInBody})
        => /\ outcome = Failed(Err("MalformedDefinition"))
           /\ init_state = before

\* A top-level call headed by define that is not (define NAME EXPR).
MalformedDefine(e) ==
    /\ e.k = "Call"
    /\ e.l /= <<>>
    /\ Head(e.l) = Macro("Define")
    /\ (Len(e.l) /= 3 \/ e.l[2].k /= "OpVar")

\* C22 (malformed top-level define): a top-level call headed by define without
\* exactly two operands, or with a first operand that is not a symbol, fails with
\* BadDefine.
C22_MalformedDefine ==
    (r_pc = "out" /\ MalformedDefine(r_src)) => r_out.err = Err("BadDefine")

\* C23 (empty call): an eval that meets the empty call (), as the whole expression,
\* an operand, the callee or a cond branch, returns EmptyListEvaluation.
C23_EmptyCall ==
    (Done /\ expr \in EmptyCalls) => outcome = Failed(Err("EmptyListEvaluation"))

\* C24 (special form in value position): a token define, cond or lambda that is
\* not the first element of a call makes eval fail with UnexpectedOperator.
C24_UnexpectedOperator ==
    (Done /\ expr \in TokenPrograms) => outcome = Failed(Err("UnexpectedOperator"))

\* What (cond test then else) returns: the test's error, ArgumentTypeMismatch for
\* a test that is not a Boolean, else what the selected branch returns.
CondExpected(c, bound, order) ==
    LET t == eval(c.test, bound, order)
    IN  IF t.kind /= "ok" THEN t
        ELSE IF t.val.t /= "Truth" THEN Failed(Err("ArgumentTypeMismatch"))
        ELSE IF t.val.b THEN eval(c.a, bound, order)
        ELSE eval(c.b, bound, order)

\* The branches of c that must not be evaluated, given what its test returns.
Unselected(c, bound, order) ==
    LET t == eval(c.test, bound, order)
    IN  IF t.kind = "ok" /\ t.val.t = "Truth"
        THEN (IF t.val.b THEN {c.b} ELSE {c.a})
        ELSE {c.a, c.b}

\* C25 (conditional): (cond test then else) evaluates the test, then the branch the
\* test selects and never the other one; a test that is not a Boolean fails with
\* ArgumentTypeMismatch and no branch is evaluated.
C25_Conditional ==
    (pc \in {"run", "done"} /\ expr \in CondPrograms) =>
    \A c \in CondCases :
        expr = CondProg(c) =>
            /\ Done => outcome = CondExpected(c, before, iter_order)
            /\ \A i \in 1..Len(instructions) :
                  \A br \in Unselected(c, before, iter_order) \ {c.test} :
                      instructions[i] /= IEvalAndPush(br)

\* C25 witness: (cond #f (sub1 0) 1) has returned 1, the failing branch skipped.
C25_Witness ==
    /\ Done
    /\ expr = Cnd(OpVar("#f"), FailSub, Num(1))
    /\ outcome = Ok(Integer(1))

\* C26 (builtin arity): a fixed-arity builtin applied to a wrong number of operands
\* fails with ArgumentCountMismatch whatever the operands' types; list takes any
\* number of operands, none included.
C26_BuiltinArity ==
    Done =>
        /\ \A c \in ArityCases :
              expr = ArityProg(c) => outcome = Failed(Err("ArgumentCountMismatch"))
        /\ \A xs \in ListCases :
              expr = ListProg(xs) => outcome = Ok(SubValue(IntegerSeq(xs)))

\* C26 witness: (cons 0 (list) 0) has failed with ArgumentCountMismatch.
C26_Witness ==
    /\ Done
    /\ expr = ArityProg([f |-> "cons", n |-> 3])
    /\ outcome = Failed(Err("ArgumentCountMismatch"))

\* Every Integer in a list of values is at least 0.
NonNegative(vs) == \A i \in 1..Len(vs) : vs[i].t = "Integer" => vs[i].i >= 0

\* C27 (sub1 never wraps): (sub1 n) returns n - 1 for n > 0 and fails with SubZero
\* for n = 0, and no Integer below 0 is ever on the value stack.
C27_Sub1NeverWraps ==
    /\ Done =>
          \A k \in 0..MaxLoop :
              expr = SubProg(k)
                  => outcome = IF k > 0 THEN Ok(Integer(k - 1)) ELSE Failed(Err("SubZero"))
    /\ NonNegative(return_values)

\* C27 witness: (sub1 0) has failed with SubZero.
C27_Witness ==
    /\ Done
    /\ expr = SubProg(0)
    /\ outcome = Failed(Err("SubZero"))

\* C28 (type predicates): int?, bool?, list? and fun? applied to a value return
\* #t for the predicate of the value's type and #f for the three others.
C28_TypePredicates ==
    \A c \in TypeCases :
        (Done /\ expr = TypeProg(c)) => outcome = Ok(Truth(c.p = c.type))

OtherOrder(order) == IF order = "fwd" THEN "rev" ELSE "fwd"

CondIsBody == r_src \in {SLam(ps, c) : ps \in SrcParams, c \in SrcConds}
CondIsOperand == r_src \in SrcCondOperands

\* The source and the IR of that cond, and what it is resolved with.
CondSrc == IF CondIsBody THEN r_src.l[3] ELSE r_src.l[3].l[2]
CondIR == IF CondIsBody THEN r_out.e.body ELSE r_out.e.body.args[1]
CondTail == CondIsBody
CondEntry ==
    LET params == lambda_arguments(NoArguments, r_src.l[2].l, 0)
    IN  IF CondIsBody THEN params ELSE [params EXCEPT !["x"].mv = FALSE]

\* One branch resolved alone from the entry flags.
BranchAlone(i) == finalize(CondSrc.l[i], 1, CondEntry, CondTail, "")

\* The AND of the flags the two branches leave.
AndOfBranches ==
    [n \in DOMAIN CondEntry |->
        [CondEntry[n] EXCEPT !.mv = BranchAlone(3).args[n].mv /\ BranchAlone(4).args[n].mv]]

\* Each branch is resolved from the entry flags.
C31_BranchesFromEntry ==
    (Resolved /\ (CondIsBody \/ CondIsOperand)) =>
        /\ CondIR.a = BranchAlone(3).e
        /\ CondIR.b = BranchAlone(4).e

\* The test is resolved from the AND of the two post-branch flags.
C31_MergeIsAnd ==
    (Resolved /\ (CondIsBody \/ CondIsOperand)) =>
        CondIR.test = finalize(CondSrc.l[2], 1, AndOfBranches, FALSE, "").e

\* A read of a parameter in the test is moveable only if the parameter was moveable
\* on entry and neither branch names its slot.
TestReadsOK ==
    \A t \in SubTerms(CondIR.test) :
        (t.k = "Argument" /\ t.s = 0 /\ t.mv) =>
            /\ \E n \in DOMAIN CondEntry :
                  CondEntry[n] = [scope |-> 0, offset |-> t.o, mv |-> TRUE]
            /\ t.o \notin SlotsNamed(CondIR.a, 0) \cup SlotsNamed(CondIR.b, 0)

\* C31 (cond moveability merge): when the resolver processes (cond test then else),
\* each branch is resolved from the same entry flags, after both branches a
\* parameter's flag is the AND of the two post-branch flags, and a read of a
\* parameter in the test is flagged moveable only if the parameter was moveable on
\* entry and is read in neither branch.
C31_CondMoveabilityMerge ==
    (Resolved /\ (CondIsBody \/ CondIsOperand)) =>
        /\ CondIR.a = BranchAlone(3).e
        /\ CondIR.b = BranchAlone(4).e
        /\ CondIR.test = finalize(CondSrc.l[2], 1, AndOfBranches, FALSE, "").e
        /\ TestReadsOK

(***************************************************************************)
(* C32: what replace_args changes.                                         *)
(***************************************************************************)
\* r is e with every Argument below scope_level replaced by the value of its slot,
\* and nothing else changed.
RECURSIVE SameExcept(_, _, _, _)
SameExcept(e, r, scope_level, stack) ==
    CASE e.k = "Argument" ->
           IF e.s < scope_level THEN r = FValue(stack[e.o + 1]) ELSE r = e
      [] e.k = "FunctionCall" ->
           /\ r.k = "FunctionCall"
           /\ r.tail = e.tail
           /\ r.self = e.self
           /\ SameExcept(e.head, r.head, scope_level, stack)
           /\ Len(r.args) = Len(e.args)
           /\ \A i \in 1..Len(e.args) : SameExcept(e.args[i], r.args[i], scope_level, stack)
      [] e.k = "Cond" ->
           /\ r.k = "Cond"
           /\ SameExcept(e.test, r.test, scope_level, stack)
           /\ SameExcept(e.a, r.a, scope_level, stack)
           /\ SameExcept(e.b, r.b, scope_level, stack)
      [] e.k = "Lambda" ->
           /\ r.k = "Lambda"
           /\ r.arity = e.arity
           /\ r.s = e.s
           /\ SameExcept(e.body, r.body, scope_level, stack)
      [] OTHER -> r = e

\* The stack holds every slot that is to be replaced.
SlotsInStack(e, scope_level, stack) ==
    \A t \in SubTerms(e) :
        (t.k = "Argument" /\ t.s < scope_level) => t.o < Len(stack)

Closed == r_pc = "closed" /\ SlotsInStack(r_out.e, r_closed.level, r_closed.stack)

\* C32 (replace_args): replace_args(L, stack) returns its input with every
\* Argument(i, s, _) with s < L, at any depth including inside Lambda bodies,
\* replaced by Value(stack[i]); Arguments with s >= L, the is_tail and is_self
\* flags, the arities and scope levels of Lambdas and all other nodes are as they
\* were, and replace_args(L, stack) applied to the result changes nothing.
C32_ReplaceArgs ==
    Closed =>
        /\ SameExcept(r_out.e, r_closed.e, r_closed.level, r_closed.stack)
        /\ replace_args(r_closed.e, r_closed.level, r_closed.stack) = r_closed.e

\* C32 witness: replace_args(1, stack) has replaced a slot of scope 0 inside the
\* body of a nested Lambda and has kept an Argument of scope 1.
C32_Witness ==
    /\ Closed
    /\ r_closed.level = 1
    /\ \E lam \in SubTerms(r_out.e) :
          /\ lam.k = "Lambda"
          /\ lam.s = 1
          /\ \E t \in SubTerms(lam.body) : t.k = "Argument" /\ t.s = 0
    /\ \E t \in SubTerms(r_closed.e) : t.k = "Argument" /\ t.s = 1
    /\ \A t \in SubTerms(r_closed.e) : t.k = "Argument" => t.s >= 1
    /\ \E t \in SubTerms(r_closed.e) : t = FValue(r_closed.stack[1])

(***************************************************************************)
(* C33: the value stack across one EvalAndPush.                            *)
(***************************************************************************)
\* The loop run from here until the instruction on top of the stack, and all it
\* pushes, has been executed: the instructions below it are not touched before.
TopCompleted == run([Machine EXCEPT !.instructions = <<Last(instructions)>>])

\* C33 (value-stack discipline): every EvalAndPush(expr) that completes without
\* error leaves the value stack one entry longer than it was when it started, the
\* entries below the new top being as they were - also across the calls of custom
\* functions, whose return truncates the stack to the saved frame base before it
\* pushes the result.
C33_ValueStackDiscipline ==
    (TopIs("EvalAndPush") /\ TopCompleted.status = "run") =>
        /\ Len(TopCompleted.return_values) = Len(return_values) + 1
        /\ SubSeq(TopCompleted.return_values, 1, Len(return_values)) = return_values

\* C33 witness: the operand ((lambda (x) x) b) of a call inside the body of a custom
\* function is about to be evaluated, over the caller's bindings and an operand
\* that are on the value stack, and its evaluation completes.
C33_Witness ==
    /\ TopIs("EvalAndPush")
    /\ \E c \in ShadowCases :
          /\ expr = ShadowViaCall(c)
          /\ Last(instructions).e = App(<<Ident, Num(c.b)>>)
          /\ Len(return_values) >= 2
          /\ TopCompleted.status = "run"
          /\ Last(TopCompleted.return_values) = Integer(c.b)
    /\ states /= <<>>

C35_ConsInverse ==
    (Done /\ expr \in ConsPrograms) =>
        \A c \in ConsCases :
            /\ expr = CarCons(c) => outcome = eval(c.x, before, iter_order)
            /\ expr = CdrCons(c) => outcome = eval(c.l, before, iter_order)
            /\ expr = NullCons(c) => outcome = Ok(Truth(FALSE))

\* C35 witness: (cdr (cons 1 (list 1 0))) has returned the list (1 0).
C35_Witness ==
    /\ Done
    /\ expr = CdrCons([x |-> Num(1), l |-> ListProg(<<1, 0>>)])
    /\ outcome = eval(ListProg(<<1, 0>>), before, iter_order)
    /\ outcome.kind = "ok"
    /\ Len(outcome.val.v) = 2

\* add1 below the top of the range returns n + 1.
C36_BelowTop ==
    \A n \in {0, IntegerMax - 1} :
        (Done /\ expr = AddProg(n)) => outcome = Ok(Integer(n + 1))

\* C36 (add1 at the top of the range): add1 of an Integer below the largest one
\* returns n + 1, and add1 of the largest one returns the largest one or fails
\* with an error; it never returns a wrapped-around smaller value such as 0.
C36_Add1AtTop ==
    /\ \A n \in {0, IntegerMax - 1} :
          (Done /\ expr = AddProg(n)) => outcome = Ok(Integer(n + 1))
    /\ (Done /\ expr = AddProg(IntegerMax)) =>
          \/ outcome = Ok(Integer(IntegerMax))
          \/ outcome.kind = "err"

\* What each build makes of (add1 u64::MAX): a panic with overflow checks, 0 without.
C36_Outcomes ==
    (Done /\ expr = AddProg(IntegerMax)) =>
        /\ overflow_checks = "on" => outcome = Panicked
        /\ overflow_checks = "off" => outcome = Ok(Integer(0))
        /\ overflow_checks /= "any"

====
